---- MODULE Spec2Model ----
(***************************************************************************)
(* A model of the OpenRPC tooling of filecoin-openrpc-spec:                *)
(*   - the checker builder and the run-time checker (proxy/core.rs),       *)
(*   - the proxy loop and its shutdown (proxy.rs),                         *)
(*   - the schema garbage collector (gc.rs),                               *)
(*   - the reference resolver (openrpc_resolve.rs).                        *)
(* Each part has its own specification over the part's variables; the      *)
(* variables of the other parts stay at their idle value.                  *)
(***************************************************************************)
EXTENDS Integers, Sequences, FiniteSets, TLC

VARIABLES
    document,      \* builder: the resolved document handed to the builder
    checker,       \* builder: the builder's Result (Ok(CheckAllMethods) or Err)
    method,        \* checker: the declared method the CheckOneMethod was built from
    compiled,      \* checker: the CheckOneMethod under check
    exchange,      \* checker: the (request, response) pair last checked
    annotations,   \* checker: the Vec<Annotation> returned by the last check
    concurrency,   \* proxy: Args::concurrency, an Option<NonZeroUsize>
    phase,         \* proxy: where main is: serving, draining or stopped
    queue,         \* proxy: the connection futures held by buffered(N), in order
    openrpc,       \* gc: the resolved document handed to prune_schemas
    pruned,        \* gc: prune_schemas' Result and the document it leaves
    aliveSet,      \* gc, step by step: the alive set of the mark phase
    markStack,     \* gc, step by step: the calls of mark still to be made
    expansions,    \* gc, step by step: how often each key's schema was recursed into
    raw,           \* resolver: the components and methods handed to methods()
    resolved,      \* resolver: the Result of methods()
    pc             \* the position of the specification's run

bvars == <<document, checker>>

cvars == <<method, compiled, exchange, annotations>>

svars == <<concurrency, phase, queue>>

mvars == <<aliveSet, markStack, expansions>>

gvars == <<openrpc, pruned, aliveSet, markStack, expansions>>

rvars == <<raw, resolved>>

vars == <<document, checker, method, compiled, exchange, annotations,
          concurrency, phase, queue, openrpc, pruned, aliveSet, markStack,
          expansions, raw, resolved, pc>>

Idle == "idle"

-----------------------------------------------------------------------------
(* Option<T>: None is the empty set, Some(x) the singleton.                *)

None == {}

Some(x) == {x}

IsSome(opt) == opt # {}

Unwrap(opt) == CHOOSE x \in opt : TRUE

UnwrapOrDefault(opt, default) == IF opt = {} THEN default ELSE Unwrap(opt)

-----------------------------------------------------------------------------
(* JSON values and JSON Schemas.  A value is its JSON text; a schema is    *)
(* the value of its "type" keyword, or BadSchema for a schema the          *)
(* JSON-Schema library refuses to compile.                                 *)

IntegerValues == {"1", "2", "3"}

StringValues == {"\"two\""}

BadSchema == "{\"type\":12}"

\* JSONSchema::is_valid of a compiled schema
IsValid(schema, value) ==
    CASE schema = "integer" -> value \in IntegerValues
      [] schema = "string"  -> value \in StringValues
      [] schema = "true"    -> TRUE
      [] OTHER              -> FALSE

\* compile: Ok(JSONSchema) or Err(ValidationError)
Compile(schema) ==
    IF schema = BadSchema
        THEN [ok |-> FALSE, error |-> [kind |-> "SchemaCompile"]]
        ELSE [ok |-> TRUE, schema |-> schema]

-----------------------------------------------------------------------------
(* IndexMap<String, CheckContentDescriptor>: a sequence of entries with    *)
(* distinct names, in insertion order.                                     *)

\* a lookup that finds no key
ContainsKeyNever(map, name) == FALSE

ContainsKey(map, name) == \E i \in 1..Len(map) : map[i].name = name

\* IndexMap::insert: a new key is appended, an existing key keeps its
\* position and has its value replaced
IndexMapInsert(map, entry) ==
    IF ContainsKey(map, entry.name)
        THEN [i \in 1..Len(map) |->
                 IF map[i].name = entry.name THEN entry ELSE map[i]]
        ELSE Append(map, entry)

-----------------------------------------------------------------------------
(* The checker builder, CheckAllMethods::new_with_hasher_and_compilation_  *)
(* options.                                                                *)

DefaultParamStructure == "Either"

\* the body of the loop over method.params, for the parameter at index ix
\* (0-based); acc is the loop's state: params, options, and the error bailed with
ParamIter(acc, ix, param, param_structure, method_name) ==
    LET required == UnwrapOrDefault(param.required, FALSE)
        options  == IF ~required THEN FALSE ELSE acc.options
        schema   == Compile(param.schema)
    IN  IF required /\ param_structure \in {"ByPosition", "Either"} /\ acc.options
            THEN [acc EXCEPT !.error = Some([kind |-> "OutOfOrder", index |-> ix,
                                             method |-> method_name])]
        ELSE IF ContainsKey(acc.params, param.name)
                /\ param_structure \in {"ByName", "Either"}
            THEN [acc EXCEPT !.error = Some([kind |-> "DuplicateParam",
                                             param |-> param.name,
                                             method |-> method_name])]
        ELSE IF ~schema.ok
            THEN [acc EXCEPT !.error = Some(schema.error)]
        ELSE [params  |-> IndexMapInsert(acc.params,
                              [name       |-> param.name,
                               required   |-> required,
                               deprecated |-> UnwrapOrDefault(param.deprecated, FALSE),
                               schema     |-> schema.schema]),
              options |-> options,
              error   |-> None]

RECURSIVE ParamLoop(_, _, _, _, _)
\* for (ix, param) in method.params.into_iter().enumerate(), from index ix on
ParamLoop(acc, ix, params, param_structure, method_name) ==
    IF IsSome(acc.error) \/ ix >= Len(params)
        THEN acc
        ELSE ParamLoop(ParamIter(acc, ix, params[ix + 1], param_structure, method_name),
                       ix + 1, params, param_structure, method_name)

\* the body of the loop over document.methods: Ok(methods') or Err
MethodIter(methods, m) ==
    LET param_structure == UnwrapOrDefault(m.param_structure, DefaultParamStructure)
        walked == ParamLoop([params |-> <<>>, options |-> FALSE, error |-> None],
                            0, m.params, param_structure, m.name)
        result == IF IsSome(m.result) THEN Compile(Unwrap(m.result).schema)
                                      ELSE [ok |-> TRUE]
    IN  IF IsSome(walked.error)
            THEN [ok |-> FALSE, error |-> Unwrap(walked.error)]
        ELSE IF m.name \in DOMAIN methods
            THEN [ok |-> FALSE, error |-> [kind |-> "DuplicateMethod", method |-> m.name]]
        ELSE IF ~result.ok
            THEN [ok |-> FALSE, error |-> result.error]
        ELSE [ok |-> TRUE,
              methods |-> [n \in DOMAIN methods \cup {m.name} |->
                  IF n = m.name
                      THEN [params          |-> walked.params,
                            param_structure |-> param_structure,
                            deprecated      |-> UnwrapOrDefault(m.deprecated, FALSE),
                            result          |-> IF IsSome(m.result)
                                                    THEN Some(result.schema)
                                                    ELSE None]
                      ELSE methods[n]]]

RECURSIVE MethodLoop(_, _, _)
\* for method in document.methods, from the i-th method on
MethodLoop(acc, i, methods) ==
    IF ~acc.ok \/ i > Len(methods)
        THEN acc
        ELSE MethodLoop(MethodIter(acc.methods, methods[i]), i + 1, methods)

EmptyMethods == [n \in {} |-> Idle]

\* CheckAllMethods::new_with_hasher_and_compilation_options
NewChecker(doc) == MethodLoop([ok |-> TRUE, methods |-> EmptyMethods], 1, doc.methods)

-----------------------------------------------------------------------------
(* The run-time checker, CheckOneMethod::check.                            *)
(* request.params is None, Some(ByPosition(values)) or Some(ByName(map));  *)
(* a response is [id, result], its result Ok(value) or Err(error).         *)

ByPosition(values) == [kind |-> "ByPosition", values |-> values]

ByName(map) == [kind |-> "ByName", map |-> map]

Ok(value) == [ok |-> TRUE, value |-> value]

Err == [ok |-> FALSE]

\* a match that takes either for by-position
ParamStructureAnnotationsStrict(param_structure, params) ==
    IF IsSome(params)
       /\ \/ param_structure = "ByName" /\ Unwrap(params).kind = "ByPosition"
          \/ param_structure # "ByName" /\ Unwrap(params).kind = "ByName"
        THEN <<"IncorrectParamStructure">>
        ELSE <<>>

\* the first match: the annotation for a request in the wrong parameter form
ParamStructureAnnotations(param_structure, params) ==
    IF IsSome(params)
       /\ \/ param_structure = "ByName" /\ Unwrap(params).kind = "ByPosition"
          \/ param_structure = "ByPosition" /\ Unwrap(params).kind = "ByName"
        THEN <<"IncorrectParamStructure">>
        ELSE <<>>

\* request_params: Either::Left(VecDeque) or Either::Right(HashMap)
RequestParams(params) ==
    IF ~IsSome(params)
        THEN [left |-> TRUE, by_position |-> <<>>]
    ELSE IF Unwrap(params).kind = "ByPosition"
        THEN [left |-> TRUE, by_position |-> Unwrap(params).values]
    ELSE [left |-> FALSE, by_name |-> Unwrap(params).map]

\* a deque popped at its back
ProvidedFromBack(request_params, name) ==
    IF request_params.left
        THEN IF request_params.by_position = <<>>
                 THEN None
                 ELSE Some(request_params.by_position[Len(request_params.by_position)])
        ELSE IF name \in DOMAIN request_params.by_name
                 THEN Some(request_params.by_name[name])
                 ELSE None

\* by_position.pop_front() / by_name.remove(name): the value provided, if any
Provided(request_params, name) ==
    IF request_params.left
        THEN IF request_params.by_position = <<>>
                 THEN None
                 ELSE Some(Head(request_params.by_position))
        ELSE IF name \in DOMAIN request_params.by_name
                 THEN Some(request_params.by_name[name])
                 ELSE None

\* request_params after the pop_front / remove
Taken(request_params, name) ==
    IF request_params.left
        THEN IF request_params.by_position = <<>>
                 THEN request_params
                 ELSE [request_params EXCEPT !.by_position = Tail(@)]
        ELSE [request_params EXCEPT !.by_name =
                 [k \in DOMAIN @ \ {name} |-> @[k]]]

\* a match that reports every parameter without a value
ParamAnnotationsMissingOptional(param, provided) ==
    IF ~IsSome(provided)
        THEN <<"MissingRequiredParam">>
        ELSE (IF param.deprecated THEN <<"DeprecatedParam">> ELSE <<>>)
             \o (IF ~IsValid(param.schema, Unwrap(provided))
                     THEN <<"InvalidParam">> ELSE <<>>)

\* match (required, provided): the annotations of one declared parameter
ParamAnnotations(param, provided) ==
    IF ~IsSome(provided)
        THEN IF param.required THEN <<"MissingRequiredParam">> ELSE <<>>
        ELSE (IF param.deprecated THEN <<"DeprecatedParam">> ELSE <<>>)
             \o (IF ~IsValid(param.schema, Unwrap(provided))
                     THEN <<"InvalidParam">> ELSE <<>>)

RECURSIVE ParamWalk(_, _, _, _)
\* for (name, descriptor) in &self.params, from the i-th entry on: the
\* annotations pushed and the request_params left over
ParamWalk(params, i, request_params, pushed) ==
    IF i > Len(params)
        THEN [annotations |-> pushed, request_params |-> request_params]
        ELSE ParamWalk(params, i + 1, Taken(request_params, params[i].name),
                 pushed \o ParamAnnotations(params[i],
                               Provided(request_params, params[i].name)))

IsEmpty(request_params) ==
    IF request_params.left
        THEN request_params.by_position = <<>>
        ELSE DOMAIN request_params.by_name = {}

\* the emptiness test without its negation
ExcessAnnotationsNegated(request_params) ==
    IF IsEmpty(request_params) THEN <<"ExcessParam">> ELSE <<>>

\* one annotation for each value left over
ExcessAnnotationsPerValue(request_params) ==
    [i \in 1..(IF request_params.left
                   THEN Len(request_params.by_position)
                   ELSE Cardinality(DOMAIN request_params.by_name)) |-> "ExcessParam"]

ExcessAnnotations(request_params) ==
    IF ~IsEmpty(request_params) THEN <<"ExcessParam">> ELSE <<>>

\* the result validated only under a matching id
ResponseAnnotationsMatchedOnly(id, result, response) ==
    IF ~IsSome(id) /\ ~IsSome(result) /\ ~IsSome(response)
        THEN <<>>
    ELSE IF IsSome(id) /\ IsSome(result) /\ IsSome(response)
        THEN IF Unwrap(id) # Unwrap(response).id
                 THEN <<"BadNotification">>
             ELSE IF Unwrap(response).result.ok
                     /\ ~IsValid(Unwrap(result), Unwrap(response).result.value)
                 THEN <<"InvalidResult">>
             ELSE <<>>
    ELSE <<"BadNotification">>

\* an error result matched by the catch-all arm
ResponseAnnotationsErrIsBad(id, result, response) ==
    IF ~IsSome(id) /\ ~IsSome(result) /\ ~IsSome(response)
        THEN <<>>
    ELSE IF IsSome(id) /\ IsSome(result) /\ IsSome(response)
            /\ Unwrap(response).result.ok
        THEN (IF Unwrap(id) # Unwrap(response).id
                  THEN <<"BadNotification">> ELSE <<>>)
             \o (IF ~IsValid(Unwrap(result), Unwrap(response).result.value)
                     THEN <<"InvalidResult">> ELSE <<>>)
    ELSE <<"BadNotification">>

\* match (&request.id, &self.result, response)
ResponseAnnotations(id, result, response) ==
    IF ~IsSome(id) /\ ~IsSome(result) /\ ~IsSome(response)
        THEN <<>>
    ELSE IF IsSome(id) /\ IsSome(result) /\ IsSome(response)
        THEN (IF Unwrap(id) # Unwrap(response).id
                  THEN <<"BadNotification">> ELSE <<>>)
             \o (IF Unwrap(response).result.ok
                    /\ ~IsValid(Unwrap(result), Unwrap(response).result.value)
                     THEN <<"InvalidResult">> ELSE <<>>)
    ELSE <<"BadNotification">>

DeprecatedAnnotations(deprecated) ==
    IF deprecated THEN <<"DeprecatedMethod">> ELSE <<>>

\* a check that looks at the method's deprecated flag first
CheckDeprecatedFirst(self, request, response) ==
    LET walk == ParamWalk(self.params, 1, RequestParams(request.params), <<>>)
    IN  DeprecatedAnnotations(self.deprecated)
        \o ParamStructureAnnotations(self.param_structure, request.params)
        \o walk.annotations
        \o ExcessAnnotations(walk.request_params)
        \o ResponseAnnotations(request.id, self.result, response)

\* CheckOneMethod::check
Check(self, request, response) ==
    LET walk == ParamWalk(self.params, 1, RequestParams(request.params), <<>>)
    IN  ParamStructureAnnotations(self.param_structure, request.params)
        \o walk.annotations
        \o ExcessAnnotations(walk.request_params)
        \o ResponseAnnotations(request.id, self.result, response)
        \o DeprecatedAnnotations(self.deprecated)

-----------------------------------------------------------------------------
(* The inputs the specifications draw from.                                *)

MaxDocSize == 5      \* builder: methods plus parameters of a document

MaxParams == 2       \* checker: parameters of the method under check

MaxArgs == 2         \* checker: values a request supplies

MethodNames == {"Filecoin.Add", "Filecoin.Sub"}

ParamNames == {"a", "b"}

OptBool == {None, Some(TRUE), Some(FALSE)}

SeqsUpTo(S, n) == UNION {[1..k -> S] : k \in 0..n}

\* the content descriptors of the builder's documents
BuildParams ==
    [name : ParamNames, required : OptBool, deprecated : {None},
     schema : {"integer"}]

\* the methods of the builder's documents with at most n parameters
BuildMethods(n) ==
    [name : MethodNames,
     params : SeqsUpTo(BuildParams, n),
     param_structure : {None, Some("ByName"), Some("ByPosition")},
     deprecated : {None},
     result : {None}]

\* the size of a document: its methods plus their parameters
RECURSIVE SizeFrom(_, _)
SizeFrom(methods, i) ==
    IF i > Len(methods) THEN 0
    ELSE 1 + Len(methods[i].params) + SizeFrom(methods, i + 1)

DocSize(doc) == SizeFrom(doc.methods, 1)

\* the content descriptors of the method under check
CheckParams ==
    [name : ParamNames, required : {None, Some(TRUE)},
     deprecated : {None, Some(TRUE)}, schema : {"integer", "string"}]

ResultDescriptors ==
    [name : {"sum"}, required : {None}, deprecated : {None},
     schema : {"integer", BadSchema}]

CheckMethods ==
    [name : {"Filecoin.Add"},
     params : SeqsUpTo(CheckParams, MaxParams),
     param_structure : {None, Some("ByName"), Some("ByPosition")},
     deprecated : {None, Some(TRUE)},
     result : {None} \cup {Some(d) : d \in ResultDescriptors}]

ArgValues == {"1", "\"two\""}

RequestIds == {7}

ResponseIds == {7, 8}

Maps(keys) == UNION {[ks -> ArgValues] : ks \in {k \in SUBSET keys : Cardinality(k) <= MaxArgs}}

Requests ==
    [method : {"Filecoin.Add"},
     params : {None}
              \cup {Some(ByPosition(v)) : v \in SeqsUpTo(ArgValues, MaxArgs)}
              \cup {Some(ByName(m)) : m \in Maps(ParamNames)},
     id : {None} \cup {Some(i) : i \in RequestIds}]

Responses ==
    {None} \cup {Some(r) : r \in [id : ResponseIds,
                                  result : {Ok("3"), Ok("\"two\""), Err}]}

-----------------------------------------------------------------------------------------------------------------------------------------------------
(* The idle values of the parts a specification does not run.              *)

IdleBuild == document = Idle /\ checker = Idle

IdleCheck == method = Idle /\ compiled = Idle /\ exchange = Idle /\ annotations = Idle

IdleProxy == concurrency = Idle /\ phase = Idle /\ queue = Idle

IdleMark == aliveSet = Idle /\ markStack = Idle /\ expansions = Idle

IdleGc == openrpc = Idle /\ pruned = Idle /\ IdleMark

IdleResolve == raw = Idle /\ resolved = Idle

-----------------------------------------------------------------------------
(* The builder's specification.  The document is read method by method:    *)
(* each step is one iteration of the loop over document.methods, and the   *)
(* builder returns at the first error or at the end of the document.       *)

InitBuild ==
    /\ pc = "building"
    /\ document = [methods |-> <<>>]
    /\ checker = [ok |-> TRUE, methods |-> EmptyMethods]
    /\ IdleCheck
    /\ IdleProxy
    /\ IdleGc
    /\ IdleResolve

\* one iteration of `for method in document.methods`; bail! returns at once
BuildMethod ==
    /\ pc = "building"
    /\ DocSize(document) < MaxDocSize
    /\ \E m \in BuildMethods(MaxDocSize - DocSize(document) - 1) :
          /\ document' = [methods |-> Append(document.methods, m)]
          /\ checker' = MethodIter(checker.methods, m)
          /\ pc' = IF checker'.ok THEN "building" ELSE "done"
    /\ UNCHANGED <<cvars, svars, gvars, rvars>>

\* the end of document.methods: Ok(CheckAllMethods { methods })
BuildReturn ==
    /\ pc = "building"
    /\ pc' = "done"
    /\ UNCHANGED <<bvars, cvars, svars, gvars, rvars>>

NextBuild == BuildMethod \/ BuildReturn

SpecBuild == InitBuild /\ [][NextBuild]_vars

-----------------------------------------------------------------------------
(* The checker's specification: a method is drawn and built, then an       *)
(* exchange is checked against it.                                         *)

InitCheck ==
    /\ pc = "built"
    /\ method \in CheckMethods
    /\ compiled = NewChecker([methods |-> <<method>>])
    /\ exchange = Idle
    /\ annotations = Idle
    /\ IdleBuild
    /\ IdleProxy
    /\ IdleGc
    /\ IdleResolve

CheckExchange ==
    /\ pc = "built"
    /\ compiled.ok
    /\ \E request \in Requests, response \in Responses :
          /\ request.method \in DOMAIN compiled.methods
          /\ exchange' = [request |-> request, response |-> response]
          /\ annotations' = Check(compiled.methods[request.method], request, response)
    /\ pc' = "checked"
    /\ UNCHANGED <<method, compiled, bvars, svars, gvars, rvars>>

NextCheck == CheckExchange

SpecCheck == InitCheck /\ [][NextCheck]_vars

-----------------------------------------------------------------------------
(* The proxy: main's accept loop and shutdown, and the request handler     *)
(* proxy.  All connection futures are polled by the one task that runs     *)
(* main, so each step below is one poll that makes progress.               *)

NumCpus == 2         \* num_cpus::get() of the machine

MaxConcurrency == 2  \* the largest --concurrency drawn

OriginUri == "http://origin:1234/rpc/v1"

AddBody == "{\"jsonrpc\":\"2.0\",\"method\":\"Filecoin.Add\",\"params\":[1,2],\"id\":7}"

VersionBody == "{\"jsonrpc\":\"2.0\",\"method\":\"Filecoin.Version\",\"id\":7}"

SumBody == "{\"jsonrpc\":\"2.0\",\"result\":3,\"id\":7}"

TextBody == "{\"jsonrpc\":\"2.0\",\"result\":\"two\",\"id\":7}"

ClientRequests ==
    {[method |-> "POST", uri |-> "/rpc/v1", headers |-> "content-type: application/json",
      body |-> AddBody],
     [method |-> "POST", uri |-> "/rpc/v0", headers |-> "content-type: application/json",
      body |-> VersionBody],
     [method |-> "GET", uri |-> "/", headers |-> "accept: text/html", body |-> ""]}

OriginResponses ==
    {[status |-> 200, headers |-> "content-type: application/json", body |-> SumBody],
     [status |-> 200, headers |-> "content-type: application/json", body |-> TextBody],
     [status |-> 404, headers |-> "content-type: text/html", body |-> "<h1>Not Found</h1>"]}

\* serde_json::from_slice::<jsonrpc_types::Request>
ParseRequest(body) ==
    CASE body = AddBody ->
             Some([method |-> "Filecoin.Add",
                   params |-> Some(ByPosition(<<"1", "2">>)), id |-> Some(7)])
      [] body = VersionBody ->
             Some([method |-> "Filecoin.Version", params |-> None, id |-> Some(7)])
      [] OTHER -> None

\* serde_json::from_slice::<jsonrpc_types::Response>
ParseResponse(body) ==
    CASE body = SumBody  -> Some([id |-> 7, result |-> Ok("3")])
      [] body = TextBody -> Some([id |-> 7, result |-> Ok("\"two\"")])
      [] OTHER -> None

\* the document of the --spec file: Filecoin.Add(a, b) -> sum, all integers
ProxyDocument ==
    [methods |-> <<
        [name |-> "Filecoin.Add",
         params |-> <<[name |-> "a", required |-> Some(TRUE), deprecated |-> None,
                       schema |-> "integer"],
                      [name |-> "b", required |-> Some(TRUE), deprecated |-> None,
                       schema |-> "integer"]>>,
         param_structure |-> None,
         deprecated |-> None,
         result |-> Some([name |-> "sum", required |-> None, deprecated |-> None,
                          schema |-> "integer"])]>>]

\* Config { remote, check }
Config == [remote |-> OriginUri, check |-> NewChecker(ProxyDocument)]

\* the log event of the validation of one exchange
Validate(req_body, resp_body) ==
    LET request  == ParseRequest(req_body)
        response == ParseResponse(resp_body)
    IN  IF IsSome(request) /\ IsSome(response)
            THEN IF Unwrap(request).method \in DOMAIN Config.check.methods
                     THEN IF Check(Config.check.methods[Unwrap(request).method],
                                   Unwrap(request), response) = <<>>
                              THEN "app::validate passed"
                              ELSE "app::validate failed"
                     ELSE "app::skip not a specified method"
            ELSE "app::skip not a JSON-RPC exchange"

\* the request handed to the origin client: the client's parts with the URI
\* replaced, and the collected body
ForwardedRequest(req_parts, req_body, remote) ==
    [method |-> req_parts.method, uri |-> remote, headers |-> req_parts.headers,
     body |-> req_body]

\* a response that reports the validation instead of the origin's answer
FromPartsUnlessFailed(resp_parts, resp_body, log) ==
    IF log = "app::validate failed"
        THEN [status |-> 502, headers |-> resp_parts.headers, body |-> resp_body]
        ELSE [status |-> resp_parts.status, headers |-> resp_parts.headers,
              body |-> resp_body]

\* Ok(http::Response::from_parts(resp_parts, Full::new(resp_body)))
FromParts(resp_parts, resp_body, log) ==
    [status |-> resp_parts.status, headers |-> resp_parts.headers, body |-> resp_body]

\* a connection future: its stage, the handler's locals (req_parts, req_body,
\* resp_parts, resp_body), and what the peers saw of its current request:
\* client (the request the client sent), sent (the request the origin
\* received), origin (the response the origin sent), returned (the response
\* the client received), log (the validation event)
NewSlot(stage, result) ==
    [stage |-> stage, result |-> result,
     client |-> None, req_parts |-> None, req_body |-> None, sent |-> None,
     origin |-> None, resp_parts |-> None, resp_body |-> None,
     returned |-> None, log |-> None]

Finished(result) == NewSlot("done", result)

\* a limit that ignores --concurrency
LimitIgnoringConfig == NumCpus

\* buffered(match concurrency { Some(it) => it.get(), None => num_cpus::get() })
Limit == IF IsSome(concurrency) THEN Unwrap(concurrency) ELSE NumCpus

\* a stream that ends at the first connection that finished in an error
YieldOrAbort(q) ==
    IF \E i \in 1..Len(q) : q[i].stage = "done" /\ q[i].result \in
           {"couldn't collect client request", "couldn't forward to origin",
            "couldn't collect origin response"}
        THEN <<>>
        ELSE IF q # <<>> /\ Head(q).stage = "done" THEN Tail(q) ELSE q

\* FuturesOrdered yields the outputs in order: the finished futures at the
\* front leave the queue, a finished future behind a running one waits
RECURSIVE Yield(_)
Yield(q) ==
    IF q # <<>> /\ Head(q).stage = "done" THEN Yield(Tail(q)) ELSE q

\* Buffered polls the listener only while it holds fewer than max futures
HasRoom == Len(queue) < Limit

\* a listener stream that is never aborted
AcceptingAfterAbort == phase \in {"serving", "draining"}

\* the listener stream has not been aborted
Accepting == phase = "serving"

InFlight == {i \in 1..Len(queue) : queue[i].stage # "done"}

InitProxy ==
    /\ pc = "proxy"
    /\ concurrency \in {None} \cup {Some(n) : n \in 1..MaxConcurrency}
    /\ phase = "serving"
    /\ queue = <<>>
    /\ IdleBuild
    /\ IdleCheck
    /\ IdleGc
    /\ IdleResolve

\* the listener yields a connection, or an error, and its future is polled
Accept ==
    /\ Accepting
    /\ HasRoom
    /\ \E accepted \in BOOLEAN :
          queue' = Yield(Append(queue, IF accepted THEN NewSlot("open", "running")
                                                   ELSE Finished("accept error")))
    /\ UNCHANGED <<concurrency, phase, pc, bvars, cvars, gvars, rvars>>

\* a request arrives on an open connection: proxy starts collecting its body
Request(i) ==
    /\ phase # "stopped"
    /\ queue[i].stage = "open"
    /\ \E r \in ClientRequests :
          queue' = [queue EXCEPT ![i] =
                       [NewSlot("collect request", "running") EXCEPT !.client = Some(r)]]
    /\ UNCHANGED <<concurrency, phase, pc, bvars, cvars, gvars, rvars>>

\* the client body is collected and the request goes to the origin, or the
\* collection fails and the connection ends in an error
CollectRequest(i) ==
    /\ phase # "stopped"
    /\ queue[i].stage = "collect request"
    /\ \/ LET client == Unwrap(queue[i].client)
              parts  == [method |-> client.method, uri |-> Config.remote,
                         headers |-> client.headers]
          IN  queue' = [queue EXCEPT ![i] =
                  [@ EXCEPT !.stage = "forward",
                            !.req_parts = Some(parts),
                            !.req_body = Some(client.body),
                            !.sent = Some(ForwardedRequest(parts, client.body,
                                                           Config.remote))]]
       \/ queue' = Yield([queue EXCEPT ![i] = [@ EXCEPT !.stage = "done",
                              !.result = "couldn't collect client request"]])
    /\ UNCHANGED <<concurrency, phase, pc, bvars, cvars, gvars, rvars>>

\* the origin answers, or forwarding fails
Forward(i) ==
    /\ phase # "stopped"
    /\ queue[i].stage = "forward"
    /\ \/ \E r \in OriginResponses :
             queue' = [queue EXCEPT ![i] =
                 [@ EXCEPT !.stage = "collect response",
                           !.origin = Some(r),
                           !.resp_parts = Some([status |-> r.status,
                                                headers |-> r.headers])]]
       \/ queue' = Yield([queue EXCEPT ![i] = [@ EXCEPT !.stage = "done",
                              !.result = "couldn't forward to origin"]])
    /\ UNCHANGED <<concurrency, phase, pc, bvars, cvars, gvars, rvars>>

\* the origin body is collected, the exchange validated and the response
\* returned to the client; or the collection fails
CollectResponse(i) ==
    /\ phase # "stopped"
    /\ queue[i].stage = "collect response"
    /\ \/ LET body == Unwrap(queue[i].origin).body
              log  == Validate(Unwrap(queue[i].req_body), body)
          IN  queue' = [queue EXCEPT ![i] =
                  [@ EXCEPT !.stage = "open",
                            !.resp_body = Some(body),
                            !.log = Some(log),
                            !.returned = Some(FromParts(Unwrap(queue[i].resp_parts),
                                                        body, log))]]
       \/ queue' = Yield([queue EXCEPT ![i] = [@ EXCEPT !.stage = "done",
                              !.result = "couldn't collect origin response"]])
    /\ UNCHANGED <<concurrency, phase, pc, bvars, cvars, gvars, rvars>>

\* the client closes an open connection: serve_connection returns Ok(())
Close(i) ==
    /\ phase # "stopped"
    /\ queue[i].stage = "open"
    /\ queue' = Yield([queue EXCEPT ![i] = [@ EXCEPT !.stage = "done",
                                                     !.result = "finished"]])
    /\ UNCHANGED <<concurrency, phase, pc, bvars, cvars, gvars, rvars>>

\* the first Ctrl-C: stop_accepting_connections.abort()
FirstSignal ==
    /\ phase = "serving"
    /\ phase' = "draining"
    /\ UNCHANGED <<concurrency, queue, pc, bvars, cvars, gvars, rvars>>

\* the aborted stream has ended and every future has finished: serve_clients
\* completes, "finished graceful shutdown"
GracefulShutdown ==
    /\ phase = "draining"
    /\ queue = <<>>
    /\ phase' = "stopped"
    /\ pc' = "finished graceful shutdown"
    /\ UNCHANGED <<concurrency, queue, bvars, cvars, gvars, rvars>>

\* the second Ctrl-C: "forced shutdown", main returns and drops the futures
ForcedShutdown ==
    /\ phase = "draining"
    /\ phase' = "stopped"
    /\ queue' = <<>>
    /\ pc' = "forced shutdown"
    /\ UNCHANGED <<concurrency, bvars, cvars, gvars, rvars>>

NextProxy ==
    \/ Accept
    \/ \E i \in 1..Len(queue) : Request(i)
    \/ \E i \in 1..Len(queue) : CollectRequest(i)
    \/ \E i \in 1..Len(queue) : Forward(i)
    \/ \E i \in 1..Len(queue) : CollectResponse(i)
    \/ \E i \in 1..Len(queue) : Close(i)
    \/ FirstSignal
    \/ GracefulShutdown
    \/ ForcedShutdown

SpecProxy == InitProxy /\ [][NextProxy]_vars

\* main's select is polled again once serve_clients can complete
FairProxy == SpecProxy /\ WF_vars(GracefulShutdown)

-----------------------------------------------------------------------------
(* The schema garbage collector, prune_schemas and mark.                   *)
(* A string that holds a path is the sequence of its '/'-separated         *)
(* segments: "#/components/schemas/A" is <<"#", "components", "schemas",   *)
(* "A">>, and the key "A" is <<"A">>.                                      *)
(* A schema is Schema::Bool or a SchemaObject, of which mark reads the     *)
(* schemas under its subschema combinators, its array keywords and its     *)
(* object keywords, each in the order mark chains them, and its reference. *)

\* "#/components/schemas/"
SchemasPrefix == <<"#", "components", "schemas">>

\* str::strip_prefix, for a prefix that ends in '/'
StripPrefix(string, prefix) ==
    IF Len(string) > Len(prefix) /\ SubSeq(string, 1, Len(prefix)) = prefix
        THEN Some(SubSeq(string, Len(prefix) + 1, Len(string)))
        ELSE None

BoolSchema ==
    [kind |-> "Bool", subschemas |-> <<>>, array |-> <<>>, object |-> <<>>,
     reference |-> None]

ObjectSchema(subschemas, array, object, reference) ==
    [kind |-> "Object", subschemas |-> subschemas, array |-> array,
     object |-> object, reference |-> reference]

\* the schemas mark recurses into without the object keywords
ChildrenWithoutObject(schema) == schema.subschemas \o schema.array

\* the schemas mark recurses into before it looks at the reference: those of
\* the subschema combinators, of the array keywords, of the object keywords
Children(schema) == schema.subschemas \o schema.array \o schema.object

\* a key missing from components.schemas that is passed over
MissingKeyIgnored(alive, reference) == [alive |-> alive, error |-> None]

\* None => return Err(BrokenReference(reference.clone())), the key not found
MissingKey(alive, reference) == [alive |-> alive, error |-> Some(reference)]

RECURSIVE Mark(_, _, _)
RECURSIVE MarkEach(_, _, _, _)

\* mark: the alive set after the traversal, and the BrokenReference it
\* stopped at, if any
Mark(alive, lookup, schema) ==
    IF schema.kind = "Bool"
        THEN [alive |-> alive, error |-> None]
        ELSE LET walked == MarkEach(alive, lookup, Children(schema), 1) IN
             IF IsSome(walked.error) \/ ~IsSome(schema.reference)
                 THEN walked
                 ELSE LET reference == Unwrap(schema.reference)
                          key == StripPrefix(reference, SchemasPrefix)
                      IN  IF ~IsSome(key)
                              THEN [alive |-> walked.alive, error |-> Some(reference)]
                          ELSE IF Unwrap(key) \in walked.alive
                              THEN walked
                          ELSE IF IsSome(lookup) /\ Unwrap(key) \in DOMAIN Unwrap(lookup)
                              THEN Mark(walked.alive \cup {Unwrap(key)}, lookup,
                                        Unwrap(lookup)[Unwrap(key)])
                          ELSE MissingKey(walked.alive \cup {Unwrap(key)}, reference)

\* `for schema in ... { mark(alive, lookup, schema)? }`, from the i-th on
MarkEach(alive, lookup, schemas, i) ==
    IF i > Len(schemas)
        THEN [alive |-> alive, error |-> None]
        ELSE LET marked == Mark(alive, lookup, schemas[i]) IN
             IF IsSome(marked.error)
                 THEN marked
                 ELSE MarkEach(marked.alive, lookup, schemas, i + 1)

\* it.params.iter().chain(it.result.as_ref()), as schemas
MethodRoots(m) ==
    [i \in 1..Len(m.params) |-> m.params[i].schema]
        \o (IF IsSome(m.result) THEN <<Unwrap(m.result).schema>> ELSE <<>>)

RECURSIVE RootsFrom(_, _)
\* document.methods.iter().flat_map(...), from the i-th method on
RootsFrom(methods, i) ==
    IF i > Len(methods) THEN <<>>
    ELSE MethodRoots(methods[i]) \o RootsFrom(methods, i + 1)

\* document.components.as_ref().and_then(|it| it.schemas.as_ref())
Lookup(doc) ==
    IF IsSome(doc.components) THEN Unwrap(doc.components).schemas ELSE None

\* a sweep that retains every schema
SweepNothing(doc, alive) == doc

\* it.retain(|k, _| alive.contains(k))
Sweep(doc, alive) ==
    IF IsSome(Lookup(doc))
        THEN [doc EXCEPT !.components =
                 Some([schemas |-> Some([k \in DOMAIN Unwrap(Lookup(doc)) \cap alive
                                            |-> Unwrap(Lookup(doc))[k]])])]
        ELSE doc

\* prune_schemas: Ok(()) and the swept document, or Err(BrokenReference)
\* and the document as it was
PruneSchemas(doc) ==
    LET marked == MarkEach({}, Lookup(doc), RootsFrom(doc.methods, 1), 1) IN
    IF IsSome(marked.error)
        THEN [ok |-> FALSE, error |-> Unwrap(marked.error), document |-> doc]
        ELSE [ok |-> TRUE, document |-> Sweep(doc, marked.alive)]

MaxRoots == 1        \* gc: parameters of the document's method

Keys == {<<"A">>, <<"B">>, <<"C">>}

Ref(key) == SchemasPrefix \o key

References == {Ref(k) : k \in Keys} \cup {<<"#", "definitions", "A">>}

RefSchema(reference) == ObjectSchema(<<>>, <<>>, <<>>, Some(reference))

\* a schema with one schema, a reference to key, under one of its keywords
Nested(keyword, key) ==
    CASE keyword = "allOf"      -> ObjectSchema(<<RefSchema(Ref(key))>>, <<>>, <<>>, None)
      [] keyword = "items"      -> ObjectSchema(<<>>, <<RefSchema(Ref(key))>>, <<>>, None)
      [] keyword = "properties" -> ObjectSchema(<<>>, <<>>, <<RefSchema(Ref(key))>>, None)

NestedSchemas == {Nested(w, k) : w \in {"allOf", "items", "properties"}, k \in Keys}

ComponentSchemas ==
    {ObjectSchema(<<>>, <<>>, <<>>, None)}
        \cup {RefSchema(r) : r \in References} \cup NestedSchemas

RootSchemas ==
    {BoolSchema} \cup {RefSchema(r) : r \in References}
        \cup {Nested(w, <<"A">>) : w \in {"allOf", "items", "properties"}}
        \cup {ObjectSchema(<<RefSchema(Ref(<<"A">>))>>, <<>>, <<>>, Some(r))
                 : r \in References}

GcComponents ==
    {None, Some([schemas |-> None])}
        \cup {Some([schemas |-> Some(m)])
                 : m \in UNION {[ks -> ComponentSchemas] : ks \in SUBSET Keys}}

GcMethods ==
    [params : SeqsUpTo([schema : RootSchemas], MaxRoots),
     result : {None, Some([schema |-> RefSchema(Ref(<<"C">>))])}]

GcDocuments == [methods : SeqsUpTo(GcMethods, 1), components : GcComponents]

InitGc ==
    /\ pc = "loaded"
    /\ openrpc \in GcDocuments
    /\ pruned = Idle
    /\ IdleMark
    /\ IdleBuild
    /\ IdleCheck
    /\ IdleProxy
    /\ IdleResolve

\* gc::prune_schemas(&mut openrpc)
Prune ==
    /\ pc = "loaded"
    /\ pruned' = PruneSchemas(openrpc)
    /\ pc' = "pruned"
    /\ UNCHANGED <<openrpc, mvars, bvars, cvars, svars, rvars>>

NextGc == Prune

SpecGc == InitGc /\ [][NextGc]_vars

-----------------------------------------------------------------------------
(* The mark phase step by step.  markStack holds the calls of mark that    *)
(* are still to be made, the next one first: a frame is a schema to visit  *)
(* or a schema whose reference is to be followed.  Visiting a schema       *)
(* replaces its frame by those of its children, in the order mark takes    *)
(* them, and then of its reference.  Nothing is left to do in a call once  *)
(* its reference is followed, so a return needs no frame.  pruned is None  *)
(* until prune_schemas returns, and Some(its result) from then on.         *)

MaxExpansions == 2   \* gc: the count of a key's expansions stops here

VisitFrame(schema) == [op |-> "visit", schema |-> schema]

ReferenceFrame(schema) == [op |-> "reference", schema |-> schema]

\* a test that takes every key for a new one
IsNewAlways(alive, key) == TRUE

\* !alive.contains(key)
IsNew(alive, key) == key \notin alive

\* the documents of the step-by-step run: the method's parameters refer to
\* the key A, directly or under a keyword, or carry a reference with
\* another prefix; the schemas of components.schemas refer to each other
MarkRoots ==
    {RefSchema(Ref(<<"A">>)), Nested("items", <<"A">>),
     ObjectSchema(<<RefSchema(Ref(<<"A">>))>>, <<>>, <<>>, Some(Ref(<<"B">>)))}

MarkDocuments ==
    [methods : {<<[params |-> ps, result |-> None]>>
                   : ps \in SeqsUpTo([schema : MarkRoots], MaxRoots)},
     components : GcComponents]

InitMark ==
    /\ pc = "marking"
    /\ openrpc \in MarkDocuments
    /\ pruned = None
    /\ aliveSet = {}
    /\ markStack = [i \in 1..Len(RootsFrom(openrpc.methods, 1)) |->
                        VisitFrame(RootsFrom(openrpc.methods, 1)[i])]
    /\ expansions = [k \in Keys |-> 0]
    /\ IdleBuild
    /\ IdleCheck
    /\ IdleProxy
    /\ IdleResolve

\* a call of mark: Bool returns at once, an object goes through its
\* children and then looks at its reference
MarkVisit ==
    /\ pc = "marking"
    /\ markStack # <<>>
    /\ Head(markStack).op = "visit"
    /\ LET schema == Head(markStack).schema IN
       markStack' =
           (IF schema.kind = "Bool"
                THEN <<>>
                ELSE [i \in 1..Len(Children(schema)) |-> VisitFrame(Children(schema)[i])]
                     \o (IF IsSome(schema.reference)
                             THEN <<ReferenceFrame(schema)>> ELSE <<>>))
           \o Tail(markStack)
    /\ UNCHANGED <<openrpc, pruned, aliveSet, expansions, pc,
                   bvars, cvars, svars, rvars>>

\* `if let Some(reference) = reference`: a new key is inserted and its
\* schema marked, a known key is passed over, a reference with another
\* prefix or to a missing key returns Err(BrokenReference)
MarkReference ==
    /\ pc = "marking"
    /\ markStack # <<>>
    /\ Head(markStack).op = "reference"
    /\ LET reference == Unwrap(Head(markStack).schema.reference)
           key == StripPrefix(reference, SchemasPrefix)
           lookup == Lookup(openrpc)
       IN  IF ~IsSome(key)
               THEN /\ pruned' = Some([ok |-> FALSE, error |-> reference,
                                     document |-> openrpc])
                    /\ pc' = "pruned"
                    /\ UNCHANGED <<aliveSet, markStack, expansions>>
           ELSE IF ~IsNew(aliveSet, Unwrap(key))
               THEN /\ markStack' = Tail(markStack)
                    /\ UNCHANGED <<aliveSet, expansions, pruned, pc>>
           ELSE IF IsSome(lookup) /\ Unwrap(key) \in DOMAIN Unwrap(lookup)
               THEN /\ aliveSet' = aliveSet \cup {Unwrap(key)}
                    /\ expansions' = [expansions EXCEPT ![Unwrap(key)] =
                                         IF @ < MaxExpansions THEN @ + 1 ELSE @]
                    /\ markStack' = <<VisitFrame(Unwrap(lookup)[Unwrap(key)])>>
                                        \o Tail(markStack)
                    /\ UNCHANGED <<pruned, pc>>
           ELSE /\ aliveSet' = aliveSet \cup {Unwrap(key)}
                /\ pruned' = Some([ok |-> FALSE, error |-> reference,
                                 document |-> openrpc])
                /\ pc' = "pruned"
                /\ UNCHANGED <<markStack, expansions>>
    /\ UNCHANGED <<openrpc, bvars, cvars, svars, rvars>>

\* every root is marked: the sweep, and Ok(())
MarkReturn ==
    /\ pc = "marking"
    /\ markStack = <<>>
    /\ pruned' = Some([ok |-> TRUE, document |-> Sweep(openrpc, aliveSet)])
    /\ pc' = "pruned"
    /\ UNCHANGED <<openrpc, mvars, bvars, cvars, svars, rvars>>

NextMark == MarkVisit \/ MarkReference \/ MarkReturn

SpecMark == InitMark /\ [][NextMark]_vars

\* the call of prune_schemas runs on until it returns
FairMark == SpecMark /\ WF_vars(NextMark)

-----------------------------------------------------------------------------
(* The reference resolver, methods, method and resolve.                    *)
(* A ReferenceOr<T> has a reference string or an item, never both.  The    *)
(* items of the four buckets are told apart by their values; Components    *)
(* is the record of its four optional maps, under the names the getters    *)
(* read them by.                                                           *)

Reference(it) == [reference |-> Some(it), item |-> None]

Item(it) == [reference |-> None, item |-> Some(it)]

\* Err(it) of resolve, ResolveError(it) of methods
ErrOf(it) == [ok |-> FALSE, error |-> it]

\* components.map(getter): the getter of "methods" is |_| None
Getter(components, getter) ==
    IF ~IsSome(components) \/ getter = "none"
        THEN None
        ELSE Unwrap(components)[getter]

\* a resolve that takes every reference for one of its own bucket
ResolveAnyPrefix(components, refr, path, getter) ==
    LET it == Unwrap(refr.reference)
        map == Getter(components, getter)
        key == <<it[Len(it)]>>
    IN  IF ~IsSome(refr.reference) THEN Ok(Unwrap(refr.item))
        ELSE IF IsSome(map) /\ key \in DOMAIN Unwrap(map) THEN Ok(Unwrap(map)[key])
        ELSE ErrOf(it)

\* resolve
Resolve(components, refr, path, getter) ==
    IF IsSome(refr.reference)
        THEN LET it == Unwrap(refr.reference)
                 key == StripPrefix(it, <<"#", "components", path>>)
                 map == Getter(components, getter)
             IN  IF ~IsSome(key) THEN ErrOf(it)
                 ELSE IF ~IsSome(map) THEN ErrOf(it)
                 ELSE IF Unwrap(key) \in DOMAIN Unwrap(map)
                     THEN Ok(Unwrap(map)[Unwrap(key)])
                 ELSE ErrOf(it)
        ELSE Ok(Unwrap(refr.item))

RECURSIVE TryCollect(_, _, _, _, _)
\* it.into_iter().map(|it| resolve(...)).try_collect(), from the i-th on
TryCollect(components, list, path, getter, i) ==
    IF i > Len(list) THEN Ok(<<>>)
    ELSE LET head == Resolve(components, list[i], path, getter) IN
         IF ~head.ok THEN head
         ELSE LET tail == TryCollect(components, list, path, getter, i + 1) IN
              IF ~tail.ok THEN tail ELSE Ok(<<head.value>> \o tail.value)

\* match field { Some(it) => Some(... .try_collect()?), None => None }
TryCollectOption(components, field, path, getter) ==
    IF IsSome(field)
        THEN LET collected == TryCollect(components, Unwrap(field), path, getter, 1) IN
             IF collected.ok THEN Ok(Some(collected.value)) ELSE collected
        ELSE Ok(None)

\* method: the fields are resolved in the order tags, params, result,
\* errors, examples, and the first Err is returned
ResolveMethod(components, m) ==
    LET tags == TryCollectOption(components, m.tags, "tags", "tags")
        params == TryCollect(components, m.params, "contentDescriptors",
                             "content_descriptors", 1)
        result == IF IsSome(m.result)
                      THEN LET it == Resolve(components, Unwrap(m.result),
                                             "contentDescriptors", "content_descriptors")
                           IN  IF it.ok THEN Ok(Some(it.value)) ELSE it
                      ELSE Ok(None)
        errors == TryCollectOption(components, m.errors, "errors", "errors")
        examples == TryCollectOption(components, m.examples, "examplePairingObjects",
                                     "example_pairing_objects")
    IN  IF ~tags.ok THEN tags
        ELSE IF ~params.ok THEN params
        ELSE IF ~result.ok THEN result
        ELSE IF ~errors.ok THEN errors
        ELSE IF ~examples.ok THEN examples
        ELSE Ok([name |-> m.name, tags |-> tags.value, params |-> params.value,
                 result |-> result.value, errors |-> errors.value,
                 examples |-> examples.value])

RECURSIVE ResolveMethods(_, _, _)
\* methods: each entry is resolved in the bucket "methods", whose getter
\* finds no map, and then its fields; collect() stops at the first error
ResolveMethods(components, methods, i) ==
    IF i > Len(methods) THEN Ok(<<>>)
    ELSE LET it == Resolve(components, methods[i], "methods", "none")
             head == IF it.ok THEN ResolveMethod(components, it.value) ELSE it
         IN  IF ~head.ok THEN head
             ELSE LET tail == ResolveMethods(components, methods, i + 1) IN
                  IF ~tail.ok THEN tail ELSE Ok(<<head.value>> \o tail.value)

MaxRefs == 1         \* resolver: entries of a list of ReferenceOr

\* the JSON name of each bucket of Components
Buckets == {"tags", "contentDescriptors", "errors", "examplePairingObjects"}

\* the field of Components that holds a bucket
ComponentsField(bucket) ==
    CASE bucket = "tags" -> "tags"
      [] bucket = "contentDescriptors" -> "content_descriptors"
      [] bucket = "errors" -> "errors"
      [] bucket = "examplePairingObjects" -> "example_pairing_objects"

\* the bucket of each field of a method
BucketOf(field) ==
    CASE field = "tags" -> "tags"
      [] field = "params" -> "contentDescriptors"
      [] field = "result" -> "contentDescriptors"
      [] field = "errors" -> "errors"
      [] field = "examples" -> "examplePairingObjects"

\* another bucket than that of the field
OtherBucket(field) ==
    IF field \in {"params", "result"} THEN "tags" ELSE "contentDescriptors"

BucketMaps(bucket) ==
    {None, Some([k \in {} |-> bucket]), Some([k \in {<<"A">>} |-> bucket])}

ResolveComponents ==
    {None} \cup
    {Some(c) : c \in [tags : BucketMaps("tags"),
                      content_descriptors : BucketMaps("contentDescriptors"),
                      errors : BucketMaps("errors"),
                      example_pairing_objects : BucketMaps("examplePairingObjects")]}

\* what a field of a method may list: an inline item, a reference of its
\* bucket to the key A or to the key B, which no map has, a reference of
\* another bucket, a reference with another prefix
Entries(field) ==
    {Item("inline"),
     Reference(<<"#", "components", BucketOf(field), "A">>),
     Reference(<<"#", "components", BucketOf(field), "B">>),
     Reference(<<"#", "components", OtherBucket(field), "A">>),
     Reference(<<"#", "definitions", "A">>)}

FieldValues(field) ==
    CASE field = "params" -> SeqsUpTo(Entries(field), MaxRefs)
      [] field = "result" -> {None} \cup {Some(e) : e \in Entries(field)}
      [] OTHER -> {None} \cup {Some(l) : l \in SeqsUpTo(Entries(field), MaxRefs)}

Fields == {"tags", "params", "result", "errors", "examples"}

EmptyMethod ==
    [name |-> "Filecoin.Add", tags |-> None, params |-> <<>>, result |-> None,
     errors |-> None, examples |-> None]

\* the methods that fill up to two of the fields
RawMethods ==
    UNION {{[[EmptyMethod EXCEPT ![f] = v] EXCEPT ![g] = w]
               : v \in FieldValues(f), w \in FieldValues(g)}
              : <<f, g>> \in Fields \X Fields}

RawEntries ==
    {Item(m) : m \in RawMethods}
        \cup {Reference(<<"#", "components", "methods", "A">>),
              Reference(<<"#", "definitions", "A">>)}

RawDocuments == [components : ResolveComponents, methods : SeqsUpTo(RawEntries, 1)]

InitResolve ==
    /\ pc = "parsed"
    /\ raw \in RawDocuments
    /\ resolved = Idle
    /\ IdleBuild
    /\ IdleCheck
    /\ IdleProxy
    /\ IdleGc

\* openrpc_resolve::methods(components, methods)
ResolveDocument ==
    /\ pc = "parsed"
    /\ resolved' = ResolveMethods(raw.components, raw.methods, 1)
    /\ pc' = "resolved"
    /\ UNCHANGED <<raw, bvars, cvars, svars, gvars>>

NextResolve == ResolveDocument

SpecResolve == InitResolve /\ [][NextResolve]_vars

-----------------------------------------------------------------------------
(* Properties of the builder.                                              *)

Required(param) == UnwrapOrDefault(param.required, FALSE)

\* the method declares a required parameter after an optional one, under a
\* paramStructure that takes parameters by position
OutOfOrder(m) ==
    /\ UnwrapOrDefault(m.param_structure, DefaultParamStructure)
           \in {"ByPosition", "Either"}
    /\ \E i, j \in 1..Len(m.params) :
          i < j /\ ~Required(m.params[i]) /\ Required(m.params[j])

BuiltOk == pc = "done" /\ checker.ok

\* C1: a document on which the builder succeeds has no method whose
\* paramStructure is by-position or either and which declares a required
\* parameter after an optional one.
C1_BuiltMethodsInOrder ==
    BuiltOk => \A i \in 1..Len(document.methods) : ~OutOfOrder(document.methods[i])

\* the values of a sequence are pairwise different
Distinct(seq) == \A i, j \in 1..Len(seq) : i # j => seq[i] # seq[j]

Names(list) == [i \in 1..Len(list) |-> list[i].name]

\* the method is by-name or either and declares a parameter name twice
DuplicateParam(m) ==
    /\ UnwrapOrDefault(m.param_structure, DefaultParamStructure) \in {"ByName", "Either"}
    /\ ~Distinct(Names(m.params))

\* C12: the build fails when two methods of the document have the same
\* name and when a by-name or either method declares a parameter name
\* twice; a built checker has one entry for each method of the document,
\* and the parameter names of each entry are unique.
C12_DuplicatesFailTheBuild ==
    /\ (\/ ~Distinct(Names(document.methods))
        \/ \E i \in 1..Len(document.methods) : DuplicateParam(document.methods[i]))
           => ~checker.ok
    /\ checker.ok =>
           /\ DOMAIN checker.methods = {document.methods[i].name
                                           : i \in 1..Len(document.methods)}
           /\ Cardinality(DOMAIN checker.methods) = Len(document.methods)
           /\ \A n \in DOMAIN checker.methods :
                  Distinct(Names(checker.methods[n].params))

\* a built checker of two methods, one of them by-position with a
\* parameter name declared twice
C12_Witness ==
    /\ BuiltOk
    /\ Len(document.methods) = 2
    /\ \E i \in 1..2 : Names(document.methods[i].params) = <<"a", "a">>

\* the build has failed on the second method, which has the first one's name
C12_WitnessDuplicateMethod ==
    /\ pc = "done" /\ ~checker.ok
    /\ checker.error.kind = "DuplicateMethod"

-----------------------------------------------------------------------------
(* Properties of check.                                                    *)

Checked == pc = "checked"

Self == compiled.methods[exchange.request.method]

Has(annotation) == \E i \in 1..Len(annotations) : annotations[i] = annotation

Count(annotation) == Cardinality({i \in 1..Len(annotations) : annotations[i] = annotation})

\* the value the request supplies for the i-th parameter of the compiled method
Supplied(i) ==
    LET params == exchange.request.params IN
    IF ~IsSome(params) THEN None
    ELSE IF Unwrap(params).kind = "ByPosition"
        THEN IF i <= Len(Unwrap(params).values)
                 THEN Some(Unwrap(params).values[i]) ELSE None
    ELSE IF Self.params[i].name \in DOMAIN Unwrap(params).map
        THEN Some(Unwrap(params).map[Self.params[i].name]) ELSE None

\* the request's parameter form is one the method's paramStructure allows
FormAllowed ==
    LET params == exchange.request.params IN
    \/ ~IsSome(params)
    \/ Self.param_structure = "Either"
    \/ Self.param_structure = "ByPosition" /\ Unwrap(params).kind = "ByPosition"
    \/ Self.param_structure = "ByName" /\ Unwrap(params).kind = "ByName"

\* the request supplies a value that no parameter of the method takes
Leftover ==
    LET params == exchange.request.params IN
    /\ IsSome(params)
    /\ IF Unwrap(params).kind = "ByPosition"
           THEN Len(Unwrap(params).values) > Len(Self.params)
           ELSE \E k \in DOMAIN Unwrap(params).map :
                   \A i \in 1..Len(Self.params) : Self.params[i].name # k

HasId == IsSome(exchange.request.id)

DeclaresResult == IsSome(Self.result)

HasResponse == IsSome(exchange.response)

IdsMatch == Unwrap(exchange.request.id) = Unwrap(exchange.response).id

OkResult == Unwrap(exchange.response).result.ok

ResultValid == IsValid(Unwrap(Self.result), Unwrap(exchange.response).result.value)

Conforming ==
    /\ ~Self.deprecated
    /\ FormAllowed
    /\ \A i \in 1..Len(Self.params) :
          /\ Self.params[i].required => IsSome(Supplied(i))
          /\ IsSome(Supplied(i)) =>
                /\ ~Self.params[i].deprecated
                /\ IsValid(Self.params[i].schema, Unwrap(Supplied(i)))
    /\ ~Leftover
    /\ HasId /\ DeclaresResult /\ HasResponse
    /\ IdsMatch /\ OkResult /\ ResultValid

\* C2: check returns the empty list for every conforming exchange.
C2_ConformingHasNoAnnotations == (Checked /\ Conforming) => annotations = <<>>

\* a conforming exchange with both parameters supplied has been checked
C2_Witness ==
    /\ Checked /\ Conforming
    /\ Len(Self.params) = 2
    /\ \A i \in 1..2 : IsSome(Supplied(i))

\* C3 as stated: InvalidResult only with an id, a declared result and a
\* response with a matching id and an Ok result.
C3_InvalidResultOnlyOnMatchingId ==
    (Checked /\ Has("InvalidResult")) =>
        HasId /\ DeclaresResult /\ HasResponse /\ IdsMatch /\ OkResult

\* C3 as amended: InvalidResult is emitted, once, exactly when the request
\* has an id, the method declares a result and the response is present with
\* an Ok result that fails the result schema, whether or not the ids match.
C3_InvalidResultIffOkResultInvalid ==
    Checked =>
        /\ Has("InvalidResult") <=>
              (HasId /\ DeclaresResult /\ HasResponse /\ OkResult /\ ~ResultValid)
        /\ Count("InvalidResult") <= 1

\* an invalid result under a response whose id differs from the request's
C3_Witness ==
    /\ Checked /\ HasId /\ DeclaresResult /\ HasResponse
    /\ ~IdsMatch /\ OkResult /\ ~ResultValid
    /\ Has("InvalidResult") /\ Has("BadNotification")

\* the combination (no id, no declared result, no response)
SilentNotification == ~HasId /\ ~DeclaresResult /\ ~HasResponse

\* C4 as stated: BadNotification for every combination other than the silent
\* notification and (id, declared result, response with matching id and Ok
\* result); no response annotation for the silent notification.
C4_BadNotificationUnlessOkMatch ==
    Checked =>
        /\ Has("BadNotification") <=>
              ~(\/ SilentNotification
                \/ HasId /\ DeclaresResult /\ HasResponse /\ IdsMatch /\ OkResult)
        /\ SilentNotification => ~Has("InvalidResult")

\* C4 as amended: BadNotification is emitted, once, for every combination
\* other than the silent notification and (id, declared result, response
\* with matching id), the response's result being Ok or an error; no
\* response annotation for the silent notification.
C4_BadNotificationUnlessMatch ==
    Checked =>
        /\ Has("BadNotification") <=>
              ~(\/ SilentNotification
                \/ HasId /\ DeclaresResult /\ HasResponse /\ IdsMatch)
        /\ Count("BadNotification") <= 1
        /\ SilentNotification => ~Has("InvalidResult")

\* an error response with the request's id to a method that declares a result
C4_Witness ==
    /\ Checked /\ HasId /\ DeclaresResult /\ HasResponse
    /\ IdsMatch /\ ~OkResult
    /\ ~Has("BadNotification")

\* the checking step that emits an annotation
StepOf(annotation) ==
    CASE annotation = "IncorrectParamStructure" -> 1
      [] annotation \in {"MissingRequiredParam", "DeprecatedParam", "InvalidParam"} -> 2
      [] annotation = "ExcessParam" -> 3
      [] annotation \in {"InvalidResult", "BadNotification"} -> 4
      [] annotation = "DeprecatedMethod" -> 5

IsParamAnnotation(annotation) == StepOf(annotation) = 2

\* what the i-th parameter of the method calls for
Expected(i) ==
    IF Supplied(i) = None
        THEN IF Self.params[i].required THEN <<"MissingRequiredParam">> ELSE <<>>
        ELSE (IF Self.params[i].deprecated THEN <<"DeprecatedParam">> ELSE <<>>)
             \o (IF IsValid(Self.params[i].schema, Unwrap(Supplied(i)))
                     THEN <<>> ELSE <<"InvalidParam">>)

RECURSIVE ExpectedFrom(_)
\* what the parameters from the i-th on call for, in declaration order
ExpectedFrom(i) ==
    IF i > Len(Self.params) THEN <<>> ELSE Expected(i) \o ExpectedFrom(i + 1)

\* C11: the annotations are ordered by checking step: the parameter
\* structure, the parameters in declaration order with DeprecatedParam
\* before InvalidParam, the excess, the response, and DeprecatedMethod,
\* emitted iff the method is flagged deprecated, last.
C11_AnnotationsInStepOrder ==
    Checked =>
        /\ \A i, j \in 1..Len(annotations) :
               i < j => StepOf(annotations[i]) <= StepOf(annotations[j])
        /\ SelectSeq(annotations, IsParamAnnotation) = ExpectedFrom(1)
        /\ Count("DeprecatedMethod") = IF Self.deprecated THEN 1 ELSE 0
        /\ Self.deprecated => annotations[Len(annotations)] = "DeprecatedMethod"

\* one exchange with an annotation of each of the five steps
C11_Witness ==
    /\ Checked
    /\ annotations = <<"IncorrectParamStructure", "DeprecatedParam", "InvalidParam",
                       "ExcessParam", "BadNotification", "DeprecatedMethod">>

\* the parameters of the method for which the request supplies no value
Unsupplied == {i \in 1..Len(Self.params) : Supplied(i) = None}

\* C14: the i-th positional value goes to the i-th parameter and a named
\* value to the parameter of its name; MissingRequiredParam is emitted once
\* for each required parameter without a value, and for no other.
C14_MissingRequiredOncePerUnsupplied ==
    Checked =>
        Count("MissingRequiredParam")
            = Cardinality({i \in Unsupplied : Self.params[i].required})

\* a required and an optional parameter, neither supplied
C14_Witness ==
    /\ Checked
    /\ Len(Self.params) = 2
    /\ Unsupplied = {1, 2}
    /\ Self.params[1].required /\ ~Self.params[2].required
    /\ Count("MissingRequiredParam") = 1

\* C15: for the parameters with a supplied value, required or optional,
\* DeprecatedParam is emitted once for each that is flagged deprecated and
\* InvalidParam once for each whose value fails its schema; none is emitted
\* for a parameter without a value.
C15_SuppliedAreValidated ==
    Checked =>
        /\ Count("DeprecatedParam")
               = Cardinality({i \in 1..Len(Self.params) \ Unsupplied :
                                 Self.params[i].deprecated})
        /\ Count("InvalidParam")
               = Cardinality({i \in 1..Len(Self.params) \ Unsupplied :
                                 ~IsValid(Self.params[i].schema, Unwrap(Supplied(i)))})

\* two positional values, the first valid for the required first parameter,
\* the second invalid for the optional, deprecated second one
C15_Witness ==
    /\ Checked
    /\ Len(Self.params) = 2
    /\ Unsupplied = {}
    /\ Unwrap(exchange.request.params).kind = "ByPosition"
    /\ Self.params[1].required /\ ~Self.params[2].required
    /\ Self.params[1].schema # Self.params[2].schema
    /\ IsValid(Self.params[1].schema, Unwrap(Supplied(1)))
    /\ Self.params[2].deprecated /\ ~Self.params[1].deprecated
    /\ Count("DeprecatedParam") = 1 /\ Count("InvalidParam") = 1

\* C16: ExcessParam is emitted once when a supplied value is left over
\* after the walk, however many are, and not at all when none is.
C16_ExcessOnce ==
    Checked => Count("ExcessParam") = IF Leftover THEN 1 ELSE 0

\* two values are left over
C16_Witness ==
    /\ Checked
    /\ Len(Self.params) = 0
    /\ IsSome(exchange.request.params)
    /\ Unwrap(exchange.request.params).kind = "ByName"
    /\ DOMAIN Unwrap(exchange.request.params).map = {"a", "b"}
    /\ Count("ExcessParam") = 1

\* C17: IncorrectParamStructure is emitted, once, exactly when the method
\* is by-name and the params are positional or the method is by-position
\* and the params are named; never under either, never without params.
C17_IncorrectParamStructureIffMismatch ==
    Checked =>
        Count("IncorrectParamStructure") =
            IF /\ exchange.request.params # None
               /\ \/ /\ Self.param_structure = "ByName"
                     /\ Unwrap(exchange.request.params).kind = "ByPosition"
                  \/ /\ Self.param_structure = "ByPosition"
                     /\ Unwrap(exchange.request.params).kind = "ByName"
                THEN 1 ELSE 0

\* named params under a by-position method
C17_Witness ==
    /\ Checked
    /\ Self.param_structure = "ByPosition"
    /\ IsSome(exchange.request.params)
    /\ Unwrap(exchange.request.params).kind = "ByName"
    /\ annotations[1] = "IncorrectParamStructure"

\* the entry of the built checker for the method it was built from
Built == compiled.methods[method.name]

\* C19: the compiled parameters of a built method are its declared
\* parameters, one for one and in order: same length, same names, and the
\* required flag, deprecated flag and schema of the i-th declared parameter
\* in the i-th entry, under every paramStructure.
C19_CompiledParamsAreDeclaredParams ==
    compiled.ok =>
        /\ Len(Built.params) = Len(method.params)
        /\ \A i \in 1..Len(method.params) :
               i <= Len(Built.params) =>
                   /\ Built.params[i].name = method.params[i].name
                   /\ Built.params[i].required = Required(method.params[i])
                   /\ Built.params[i].deprecated
                          = UnwrapOrDefault(method.params[i].deprecated, FALSE)
                   /\ Built.params[i].schema = method.params[i].schema

-----------------------------------------------------------------------------
(* Properties of the proxy.                                                *)

Slots == {queue[i] : i \in 1..Len(queue)}

\* C5: when the origin round-trip of an exchange has succeeded, the client
\* has received exactly the status, headers and body the origin sent,
\* whatever the validation logged; and the origin received the client's
\* method, headers and body under the origin URI.
C5_ProxyIsTransparent ==
    pc = "proxy" =>
        \A s \in Slots :
            /\ IsSome(s.sent) =>
                  Unwrap(s.sent) = [Unwrap(s.client) EXCEPT !.uri = OriginUri]
            /\ (IsSome(s.origin) /\ s.stage = "open") => IsSome(s.returned)
            /\ IsSome(s.returned) => s.returned = s.origin

\* an exchange that failed validation and was returned as the origin sent it
C5_Witness ==
    /\ pc = "proxy"
    /\ \E s \in Slots :
          /\ s.log = Some("app::validate failed")
          /\ IsSome(s.returned)
          /\ Unwrap(s.returned).body = TextBody

\* a step of the connection future at position i
Step(i) ==
    Request(i) \/ CollectRequest(i) \/ Forward(i) \/ CollectResponse(i) \/ Close(i)

\* C7: after the first interrupt no new connection is accepted and the
\* connections in flight keep being served; main returns only from the
\* draining phase, when every connection has finished or on the second
\* interrupt, and it does return once every connection has finished.
C7_TwoPhaseShutdown ==
    /\ [][/\ phase = "draining" => Len(queue') <= Len(queue)
          /\ (phase = "serving" /\ phase' # "serving") =>
                 phase' = "draining" /\ queue' = queue
          /\ (phase # "stopped" /\ phase' = "stopped") =>
                 /\ phase = "draining"
                 /\ queue = <<>> \/ pc' = "forced shutdown"
                 /\ pc' = "finished graceful shutdown" => queue = <<>>]_vars
    /\ [](phase = "draining" =>
             /\ \A i \in InFlight : ENABLED Step(i)
             /\ ENABLED ForcedShutdown)
    /\ (phase = "draining" /\ queue = <<>>) ~> (phase = "stopped")

\* the first interrupt has arrived while two connections are being served
C7_Witness ==
    /\ phase = "draining"
    /\ Len(queue) = 2
    /\ queue[1].stage = "forward"
    /\ queue[2].stage = "collect response"

\* the configured concurrency or, without one, the number of logical CPUs
ConfiguredN == IF concurrency = None THEN NumCpus ELSE Unwrap(concurrency)

\* C8: at most N connections are served at once, and the listener yields a
\* further connection only while fewer than N are in flight.
C8_ConcurrencyCap ==
    /\ [](pc = "proxy" => Cardinality(InFlight) <= ConfiguredN)
    /\ [][Len(queue') > Len(queue) => Cardinality(InFlight) < ConfiguredN]_vars

\* the cap is reached, under a configured value and under the default
C8_Witness ==
    /\ pc = "proxy"
    /\ concurrency = Some(1)
    /\ Cardinality(InFlight) = 1
    /\ Len(queue) = 1

\* the three ways a request fails before its exchange is complete
RequestErrors ==
    {"couldn't collect client request", "couldn't forward to origin",
     "couldn't collect origin response"}

IsRunning(slot) == slot.stage # "done"

\* the connections being served, in the order they were accepted
Running(q) == SelectSeq(q, IsRunning)

RemoveAt(seq, k) == SubSeq(seq, 1, k - 1) \o SubSeq(seq, k + 1, Len(seq))

\* C13: a request that fails while its body is collected, while it is
\* forwarded or while the origin's body is collected ends in an error with
\* no validation and no response; a request goes to the origin only from
\* the collection of its body, so never twice; and a step of one
\* connection, a failure included, leaves the other connections and the
\* accept loop as they were.
C13_FailureIsConfinedToItsRequest ==
    /\ [](pc = "proxy" =>
             /\ \A s \in Slots :
                    /\ s.result \in RequestErrors =>
                           s.stage = "done" /\ s.log = None /\ s.returned = None
                    /\ s.log # None =>
                           s.req_body # None /\ s.origin # None /\ s.resp_body # None
             /\ (phase = "serving" /\ Len(queue) < ConfiguredN) => ENABLED Accept)
    /\ [][(pc' = "proxy") =>
             LET r == Running(queue)
                 t == Running(queue')
             IN  /\ \/ t = r
                    \/ \E new \in {NewSlot("open", "running")} : t = Append(r, new)
                    \/ \E k \in 1..Len(r) :
                          \/ /\ t = RemoveAt(r, k)
                             /\ phase' = phase
                          \/ /\ Len(t) = Len(r)
                             /\ \A j \in 1..Len(r) : j # k => t[j] = r[j]
                             /\ t[k].stage = "forward" =>
                                    r[k].stage = "collect request" /\ r[k].sent = None
                             /\ phase' = phase
                 /\ phase' # phase => t = r /\ phase' = "draining"]_vars

\* a request has failed at the origin while another connection is served
\* and the listener can still yield a connection
C13_Witness ==
    /\ pc = "proxy" /\ phase = "serving"
    /\ Len(queue) = 2
    /\ queue[1].stage = "collect response"
    /\ queue[2].result = "couldn't forward to origin"
    /\ queue[2].sent # None

-----------------------------------------------------------------------------
(* Properties of the garbage collector.                                    *)

RECURSIVE ReferencesIn(_)
\* the $ref strings a schema carries, itself or in a schema under it
ReferencesIn(schema) ==
    schema.reference
        \cup UNION {ReferencesIn(schema.subschemas[i]) : i \in 1..Len(schema.subschemas)}
        \cup UNION {ReferencesIn(schema.array[i]) : i \in 1..Len(schema.array)}
        \cup UNION {ReferencesIn(schema.object[i]) : i \in 1..Len(schema.object)}

\* the keys that well-formed references name
KeysNamed(references) ==
    {SubSeq(r, 4, Len(r)) : r \in {x \in references :
        Len(x) > 3 /\ x[1] = "#" /\ x[2] = "components" /\ x[3] = "schemas"}}

OriginalSchemas ==
    IF openrpc.components = None \/ Unwrap(openrpc.components).schemas = None
        THEN [k \in {} |-> BoolSchema]
        ELSE Unwrap(Unwrap(openrpc.components).schemas)

\* the $ref strings of the schemas of the method parameters and results
RootReferences ==
    UNION {UNION {ReferencesIn(openrpc.methods[i].params[j].schema)
                     : j \in 1..Len(openrpc.methods[i].params)}
           \cup UNION {ReferencesIn(d.schema) : d \in openrpc.methods[i].result}
              : i \in 1..Len(openrpc.methods)}

RECURSIVE ReferencesFrom(_)
\* the least set of $ref strings that holds `references` and the references
\* of every schema of components.schemas that one of its members names
ReferencesFrom(references) ==
    LET more == references \cup
                UNION {ReferencesIn(OriginalSchemas[k])
                          : k \in KeysNamed(references) \cap DOMAIN OriginalSchemas}
    IN  IF more = references THEN references ELSE ReferencesFrom(more)

ReachableReferences == ReferencesFrom(RootReferences)

ReachableKeys == KeysNamed(ReachableReferences)

\* the reachable references with another prefix or an absent key
BrokenReferences ==
    {r \in ReachableReferences : KeysNamed({r}) \cap DOMAIN OriginalSchemas = {}}

Pruned == pc = "pruned"

\* C6: after prune_schemas returns Ok, the keys of components.schemas are
\* exactly the original keys reachable from a method parameter or result.
C6_RetainedIffReachable ==
    (Pruned /\ pruned.ok) =>
        /\ pruned.document.methods = openrpc.methods
        /\ IF openrpc.components = None \/ Unwrap(openrpc.components).schemas = None
               THEN pruned.document = openrpc
               ELSE DOMAIN Unwrap(Unwrap(pruned.document.components).schemas)
                        = DOMAIN OriginalSchemas \cap ReachableKeys

\* one key is retained through a chain of two references, one is removed
C6_Witness ==
    /\ Pruned /\ pruned.ok
    /\ DOMAIN OriginalSchemas = Keys
    /\ ReachableKeys = {<<"A">>, <<"B">>}
    /\ <<"A">> \notin KeysNamed(RootReferences)
    /\ DOMAIN Unwrap(Unwrap(pruned.document.components).schemas) = {<<"A">>, <<"B">>}

\* C10: prune_schemas fails with BrokenReference carrying an offending $ref
\* whenever a reachable schema carries a $ref with another prefix or with a
\* key absent from components.schemas, and only then.
C10_BrokenReferenceFails ==
    Pruned =>
        /\ BrokenReferences # {} =>
               ~pruned.ok /\ pruned.error \in BrokenReferences
        /\ ~pruned.ok => pruned.error \in BrokenReferences /\ pruned.document = openrpc

\* a reference to a key that components.schemas lacks, reached through a
\* schema of components.schemas
C10_Witness ==
    /\ Pruned /\ ~pruned.ok
    /\ pruned.error = Ref(<<"C">>)
    /\ Ref(<<"C">>) \notin RootReferences
    /\ DOMAIN OriginalSchemas = {<<"A">>}

\* C18: prune_schemas returns on every document, schemas that refer to
\* each other or to themselves included; the schema of a key is recursed
\* into at most once, and the run ends as prune_schemas is defined to.
C18_MarkTerminates ==
    /\ <>(pc = "pruned")
    /\ [](pc \in {"marking", "pruned"} =>
             /\ \A k \in Keys : expansions[k] <= 1
             /\ \A k \in Keys : expansions[k] = 1 <=> (k \in aliveSet /\ k \in DOMAIN OriginalSchemas)
             /\ pc = "pruned" => pruned = Some(PruneSchemas(openrpc)))

\* the run has returned Ok on a document whose schemas A and B refer to
\* each other and whose schema C refers to itself
C18_Witness ==
    /\ pc = "pruned" /\ pruned # None /\ Unwrap(pruned).ok
    /\ expansions = [k \in Keys |-> IF k = <<"C">> THEN 0 ELSE 1]
    /\ DOMAIN OriginalSchemas = Keys
    /\ ReferencesIn(OriginalSchemas[<<"A">>]) = {Ref(<<"B">>)}
    /\ ReferencesIn(OriginalSchemas[<<"B">>]) = {Ref(<<"A">>)}
    /\ ReferencesIn(OriginalSchemas[<<"C">>]) = {Ref(<<"C">>)}

-----------------------------------------------------------------------------
(* Properties of the resolver.                                             *)

Resolved == pc = "resolved"

\* the reference is `#/components/<bucket>/<key>`, <key> in components.<bucket>
Resolvable(it, bucket) ==
    /\ Len(it) = 4 /\ it[1] = "#" /\ it[2] = "components" /\ it[3] = bucket
    /\ bucket \in Buckets
    /\ raw.components # None
    /\ Unwrap(raw.components)[ComponentsField(bucket)] # None
    /\ <<it[4]>> \in DOMAIN Unwrap(Unwrap(raw.components)[ComponentsField(bucket)])

\* the value of components.<bucket>.<key>
ComponentValue(it, bucket) ==
    Unwrap(Unwrap(raw.components)[ComponentsField(bucket)])[<<it[4]>>]

\* the entries of a field of a raw method
EntriesOf(m, field) ==
    IF field = "params" THEN {m.params[j] : j \in 1..Len(m.params)}
    ELSE IF field = "result" THEN m.result
    ELSE UNION {{l[j] : j \in 1..Len(l)} : l \in m[field]}

\* the reference strings of the document that cannot be replaced
Offending ==
    UNION {raw.methods[i].reference : i \in 1..Len(raw.methods)}
        \cup UNION {UNION {{it \in UNION {e.reference : e \in EntriesOf(m, f)}
                               : ~Resolvable(it, BucketOf(f))}
                              : f \in Fields}
                       : m \in UNION {raw.methods[i].item : i \in 1..Len(raw.methods)}}

\* what an entry of a field with this bucket is replaced by
Replaced(e, bucket) ==
    IF e.item # None THEN Unwrap(e.item) ELSE ComponentValue(Unwrap(e.reference), bucket)

\* C9: a reference is replaced by components.<bucket>.<key> exactly when it
\* is `#/components/<bucket>/<key>` with the bucket of its field and a key
\* of that map, inline items are unchanged, and in every other case the
\* resolution fails with the offending reference string.
C9_ResolveOrOffendingReference ==
    Resolved =>
        /\ resolved.ok <=> Offending = {}
        /\ ~resolved.ok => resolved.error \in Offending
        /\ resolved.ok =>
               /\ Len(resolved.value) = Len(raw.methods)
               /\ \A i \in 1..Len(raw.methods) :
                      LET m == Unwrap(raw.methods[i].item)
                          r == resolved.value[i]
                      IN  /\ r.name = m.name
                          /\ Len(r.params) = Len(m.params)
                          /\ \A j \in 1..Len(m.params) :
                                 r.params[j] = Replaced(m.params[j], "contentDescriptors")
                          /\ r.result = {Replaced(e, "contentDescriptors") : e \in m.result}
                          /\ \A f \in {"tags", "errors", "examples"} :
                                 /\ r[f] = None <=> m[f] = None
                                 /\ \A l \in m[f] :
                                        /\ Len(Unwrap(r[f])) = Len(l)
                                        /\ \A j \in 1..Len(l) :
                                               Unwrap(r[f])[j] = Replaced(l[j], BucketOf(f))

\* a reference of the right bucket is replaced next to an inline item
C9_Witness ==
    /\ Resolved /\ resolved.ok
    /\ Len(raw.methods) = 1
    /\ resolved.value[1].params = <<"contentDescriptors">>
    /\ Unwrap(raw.methods[1].item).params[1].reference # None
    /\ resolved.value[1].tags = Some(<<"inline">>)

\* a reference of another bucket, whose map has the key, fails the document
C9_WitnessOtherBucket ==
    /\ Resolved /\ ~resolved.ok
    /\ resolved.error = <<"#", "components", "contentDescriptors", "A">>
    /\ Len(raw.methods) = 1
    /\ Unwrap(raw.methods[1].item).params = <<>>
    /\ Unwrap(raw.methods[1].item).result = None
    /\ raw.components # None
    /\ Unwrap(raw.components).content_descriptors # None
    /\ <<"A">> \in DOMAIN Unwrap(Unwrap(raw.components).content_descriptors)

====
